---------------------------- MODULE Spec2Model ----------------------------
(* aurum-server: the synchronization server AurumServer and its sessions  *)
(* (class Client).  One action per handler of src/src/client.ts, lines    *)
(* 38-344 (the AurumServer with scalar, array and duplex sources).        *)
EXTENDS Integers, Sequences, FiniteSets, TLC

VARIABLES
    status,                    \* per connection: "new", "open" or "closed"
    wsServerClients,           \* AurumServer.wsServerClients, the live list
    subscriptions,             \* Client.subscriptions: id -> CancellationToken
    timeSinceLastMessage,      \* Client.timeSinceLastMessage
    exposedDataSources,        \* id -> endpoint {source, authenticator}
    exposedDuplexDataSources,
    exposedArrayDataSources,
    value,                     \* current value of every source object
    listeners,                 \* per source object: callbacks, in registration order
    tokenCount,                \* CancellationTokens constructed so far
    cancelled,                 \* the CancellationTokens that were cancelled
    exposeCount,               \* expose calls made by the embedding application
    hooks,                     \* invocations of the configured hooks, per client
    sent,                      \* frames handed to connection.send by the last step
    pushed,                    \* updateUpstream calls made by the last step
    last                       \* the handler the last step ran, with its inputs

vars == <<status, wsServerClients, subscriptions, timeSinceLastMessage,
          exposedDataSources, exposedDuplexDataSources, exposedArrayDataSources,
          value, listeners, tokenCount, cancelled, exposeCount, hooks,
          sent, pushed, last>>

-----------------------------------------------------------------------------
(* Bounds *)

MaxTokens == 2
MaxExposes == 2

(* config?.maxMessageSize || 1048576 *)
DefaultMaxMessageSize == 1048576

Clients == {"c1", "c2"}
Ids == {"x", "y"}
AuthTokens == {"good", "reader", "bad", "malformed"}
Values == {0, 1}
ScalarSources == {"s1", "s2"}
DuplexSources == {"d1", "d2"}
ArraySources == {"a1", "a2"}
Sources == ScalarSources \cup DuplexSources \cup ArraySources
ArrayStates == {<<>>, <<0>>, <<0, 1>>}
Times == {1, 2}

NoEndpoint == [source |-> "none", authenticator |-> "none"]
NoToken == 0

-----------------------------------------------------------------------------
(* What the embedding application may pass as the authenticate argument   *)
(* of expose*: nothing ("undefined") or "verify", an application          *)
(* authorizer that accepts the token "good" for every operation and the   *)
(* token "reader" for "read" only, rejects the token "bad" and raises an  *)
(* exception on a token it cannot decode.  "allowAll" is () => true.      *)

Authenticators == {"undefined", "verify"}

\* The default parameter value: authenticate = () => true.
DefaultAuthenticate(authenticate) ==
    IF authenticate = "undefined" THEN "allowAll" ELSE authenticate

\* Outcome of endpoint.authenticator(token, operation): it returns true
\* ("allow"), returns false ("deny") or raises an exception ("throw").
\* Calling a stored undefined raises a TypeError.
Authenticate(a, token, operation) ==
    CASE a = "allowAll"      -> "allow"
      [] a = "undefined"     -> "throw"
      [] token = "good"      -> "allow"
      [] token = "reader"    -> IF operation = "read" THEN "allow" ELSE "deny"
      [] token = "bad"       -> "deny"
      [] OTHER               -> "throw"

-----------------------------------------------------------------------------
(* Helpers for arrays and maps *)

\* Array.prototype.indexOf: zero-based, -1 when absent.
IndexOf(seq, e) ==
    IF \E i \in 1..Len(seq) : seq[i] = e
    THEN (CHOOSE i \in 1..Len(seq) : seq[i] = e /\ \A j \in 1..(i - 1) : seq[j] # e) - 1
    ELSE -1

\* Array.prototype.splice(start, 1): a negative start counts from the end.
SpliceOne(seq, start) ==
    LET s == IF start < 0 THEN (IF Len(seq) + start < 0 THEN 0 ELSE Len(seq) + start)
             ELSE (IF start > Len(seq) THEN Len(seq) ELSE start)
    IN [i \in 1..(IF s < Len(seq) THEN Len(seq) - 1 ELSE Len(seq)) |->
            IF i <= s THEN seq[i] ELSE seq[i + 1]]

\* Object.assign({}, change) followed by delete of the given fields.
DeleteFields(rec, fields) == [f \in (DOMAIN rec) \ fields |-> rec[f]]

-----------------------------------------------------------------------------
(* Configuration.  The embedding application passes config to             *)
(* AurumServer.create, which builds the server's own config object from   *)
(* it, field by field.                                                    *)

\* The fields the application sets in the object it passes to create().
AppConfigFields == {"onClientConnected", "onClientDisconnected", "onError"}

\* The fields of the object create() hands to the constructor (this.config).
ServerConfigFields ==
    {"onClientConnected", "onClientDisconnected", "reuseServer", "maxMessageSize", "port"}

maxMessageSize == DefaultMaxMessageSize

-----------------------------------------------------------------------------
(* Frames.  Client.sendMessage(type, payload) sends {type, ...payload}.   *)

sendMessage(to, messageType, payload) ==
    [to |-> to, type |-> messageType] @@ payload

ErrorPayload(id, errorCode, error) ==
    [id |-> id, errorCode |-> errorCode, error |-> error]

\* A listener registered with source.listen(callback, token).
Listener(client, id, token) == [client |-> client, id |-> id, token |-> token]

\* The callback listenDataSource attaches to a scalar source.
ScalarCallback(l, v) ==
    sendMessage(l.client, "UPDATE_DATASOURCE", [id |-> l.id, value |-> v])

\* The callback listenDuplexDataSource attaches to a duplex source.
DuplexCallback(l, v) ==
    sendMessage(l.client, "UPDATE_DUPLEX_DATASOURCE", [id |-> l.id, value |-> v])

\* Variant: the snapshots are kept.
StrippedFieldsKeepSnapshots == {"operation"}

\* The fields the array callback deletes from its copy of the change.
StrippedFields == {"operation", "previousState", "newState"}

\* The callback listenArrayDataSource attaches to an array source.
ArrayCallback(l, change) ==
    sendMessage(l.client, "UPDATE_ARRAY_DATASOURCE",
                [id |-> l.id, change |-> DeleteFields(change, StrippedFields)])

\* One emission of a source: every listener's callback runs, in registration
\* order.
FireScalar(source, v) ==
    [i \in 1..Len(listeners[source]) |-> ScalarCallback(listeners[source][i], v)]

FireDuplex(source, v) ==
    [i \in 1..Len(listeners[source]) |-> DuplexCallback(listeners[source][i], v)]

FireArray(source, change) ==
    [i \in 1..Len(listeners[source]) |-> ArrayCallback(listeners[source][i], change)]

\* Variant: cancelling a token detaches every listener of the source it was
\* registered with.
CancelAllOfSource(tokens) ==
    /\ cancelled' = cancelled \cup tokens
    /\ listeners' = [s \in Sources |->
                        IF \E i \in 1..Len(listeners[s]) : listeners[s][i].token \in tokens
                        THEN <<>>
                        ELSE listeners[s]]

\* token.cancel() for every token of the set: each removes the listener that
\* was registered with it.  Cancelling twice is a no-op.
CancelAll(tokens) ==
    /\ cancelled' = cancelled \cup tokens
    /\ listeners' = [s \in Sources |->
                        SelectSeq(listeners[s], LAMBDA l : l.token \notin tokens)]

-----------------------------------------------------------------------------
(* Initial states.  Created: AurumServer.create has returned, nothing is  *)
(* exposed and no connection was accepted.  Init: the application has     *)
(* then exposed a scalar and a duplex source under the id "x" and an      *)
(* array source under the id "y", each with the authorizer "verify".      *)

NoHandler == [op |-> "none"]

Endpoint(source, authenticate) == [source |-> source, authenticator |-> authenticate]

Created ==
    /\ status = [c \in Clients |-> "new"]
    /\ wsServerClients = <<>>
    /\ subscriptions = [c \in Clients |-> [id \in Ids |-> NoToken]]
    /\ timeSinceLastMessage = [c \in Clients |-> 0]
    /\ value = [s \in Sources |-> IF s \in ArraySources THEN <<>> ELSE 0]
    /\ listeners = [s \in Sources |-> <<>>]
    /\ tokenCount = 0
    /\ cancelled = {}
    /\ exposeCount = 0
    /\ hooks = [h \in AppConfigFields |-> [c \in Clients |-> 0]]
    /\ sent = <<>>
    /\ pushed = <<>>
    /\ last = NoHandler

Init ==
    /\ Created
    /\ exposedDataSources =
           [id \in Ids |-> IF id = "x" THEN Endpoint("s1", "verify") ELSE NoEndpoint]
    /\ exposedDuplexDataSources =
           [id \in Ids |-> IF id = "x" THEN Endpoint("d1", "verify") ELSE NoEndpoint]
    /\ exposedArrayDataSources =
           [id \in Ids |-> IF id = "y" THEN Endpoint("a1", "verify") ELSE NoEndpoint]

InitEmpty ==
    /\ Created
    /\ exposedDataSources = [id \in Ids |-> NoEndpoint]
    /\ exposedDuplexDataSources = [id \in Ids |-> NoEndpoint]
    /\ exposedArrayDataSources = [id \in Ids |-> NoEndpoint]

registry == <<exposedDataSources, exposedDuplexDataSources, exposedArrayDataSources,
              exposeCount>>

\* config.onX?.(client): the hook runs when the application configured it.
InvokeHook(h, client) ==
    IF h \in AppConfigFields
    THEN [hooks EXCEPT ![h][client] = @ + 1]
    ELSE hooks

-----------------------------------------------------------------------------
(* wsServer.on("connection"): a connection is accepted.                   *)

Connection(client) ==
    /\ status[client] = "new"
    /\ status' = [status EXCEPT ![client] = "open"]
    /\ wsServerClients' = Append(wsServerClients, client)
    /\ hooks' = InvokeHook("onClientConnected", client)
    /\ sent' = <<>>
    /\ pushed' = <<>>
    /\ last' = [op |-> "connection", client |-> client]
    /\ UNCHANGED <<subscriptions, timeSinceLastMessage, registry, value, listeners,
                   tokenCount, cancelled>>

-----------------------------------------------------------------------------
(* ws.on("close"): the connection closed.                                 *)

\* The CancellationTokens held in a session's subscription map.
HeldTokens(client) == {subscriptions[client][id] : id \in Ids} \ {NoToken}

\* client.dispose(): cancel every handle of the session and clear its map.
dispose(client) ==
    /\ CancelAll(HeldTokens(client))
    /\ subscriptions' = [subscriptions EXCEPT ![client] = [id \in Ids |-> NoToken]]

\* Variant: the handler stops after dispose, before the disconnect hook.
CloseWithoutHook(client) ==
    /\ status[client] = "open"
    /\ status' = [status EXCEPT ![client] = "closed"]
    /\ wsServerClients' = SpliceOne(wsServerClients, IndexOf(wsServerClients, client))
    /\ dispose(client)
    /\ sent' = <<>>
    /\ pushed' = <<>>
    /\ last' = [op |-> "close", client |-> client]
    /\ UNCHANGED <<timeSinceLastMessage, registry, value, tokenCount, hooks>>

Close(client) ==
    /\ status[client] = "open"
    /\ status' = [status EXCEPT ![client] = "closed"]
    /\ wsServerClients' = SpliceOne(wsServerClients, IndexOf(wsServerClients, client))
    /\ dispose(client)
    /\ hooks' = InvokeHook("onClientDisconnected", client)
    /\ sent' = <<>>
    /\ pushed' = <<>>
    /\ last' = [op |-> "close", client |-> client]
    /\ UNCHANGED <<timeSinceLastMessage, registry, value, tokenCount>>

-----------------------------------------------------------------------------
(* The subscribe handlers.  Each constructs a CancellationToken and       *)
(* stores it under the id before it asks the authenticator; on success it *)
(* calls source.listenAndRepeat(callback, token), which runs the callback *)
(* once with the current value and then registers it as a listener.       *)

Unauthorized(sender, errType, id) ==
    sendMessage(sender, errType, ErrorPayload(id, 401, "Unauthorized"))

NotFound(sender, errType, id, error) ==
    sendMessage(sender, errType, ErrorPayload(id, 404, error))

\* ArrayDataSource.listenAndRepeat replays a non-empty array as one append.
InitialChange(data) ==
    [operation |-> "add", operationDetailed |-> "append", index |-> 0,
     count |-> Len(data), items |-> data, newState |-> data]

\* Variant: the not-found error carries errorCode 0.
listenDataSourceErrorCode0(message, sender) ==
    LET id == message.id IN
    IF exposedDataSources[id] # NoEndpoint
    THEN LET endpoint == exposedDataSources[id]
             token == tokenCount + 1
             auth == Authenticate(endpoint.authenticator, message.token, "read")
         IN /\ tokenCount < MaxTokens
            /\ tokenCount' = token
            /\ subscriptions' = [subscriptions EXCEPT ![sender][id] = token]
            /\ CASE auth = "allow" ->
                      /\ sent' = <<ScalarCallback(Listener(sender, id, token),
                                                  value[endpoint.source])>>
                      /\ listeners' = [listeners EXCEPT ![endpoint.source] =
                                          Append(@, Listener(sender, id, token))]
                 [] auth = "deny" ->
                      /\ sent' = <<Unauthorized(sender, "LISTEN_DATASOURCE_ERR", id)>>
                      /\ UNCHANGED listeners
                 [] OTHER ->
                      /\ sent' = <<>>
                      /\ UNCHANGED listeners
    ELSE /\ sent' = <<sendMessage(sender, "LISTEN_DATASOURCE_ERR",
                                  ErrorPayload(id, 0, "No such datasource"))>>
         /\ UNCHANGED <<tokenCount, subscriptions, listeners>>

\* Variant: source.listen instead of listenAndRepeat, so the current value is
\* not sent at subscribe time.
listenDataSourceNoRepeat(message, sender) ==
    LET id == message.id IN
    IF exposedDataSources[id] # NoEndpoint
    THEN LET endpoint == exposedDataSources[id]
             token == tokenCount + 1
             auth == Authenticate(endpoint.authenticator, message.token, "read")
         IN /\ tokenCount < MaxTokens
            /\ tokenCount' = token
            /\ subscriptions' = [subscriptions EXCEPT ![sender][id] = token]
            /\ CASE auth = "allow" ->
                      /\ sent' = <<>>
                      /\ listeners' = [listeners EXCEPT ![endpoint.source] =
                                          Append(@, Listener(sender, id, token))]
                 [] auth = "deny" ->
                      /\ sent' = <<Unauthorized(sender, "LISTEN_DATASOURCE_ERR", id)>>
                      /\ UNCHANGED listeners
                 [] OTHER ->
                      /\ sent' = <<>>
                      /\ UNCHANGED listeners
    ELSE /\ sent' = <<NotFound(sender, "LISTEN_DATASOURCE_ERR", id, "No such datasource")>>
         /\ UNCHANGED <<tokenCount, subscriptions, listeners>>

\* Variant: a session that was granted the id before is not asked again.
listenDataSourceCachedGrant(message, sender) ==
    LET id == message.id IN
    IF exposedDataSources[id] # NoEndpoint
    THEN LET endpoint == exposedDataSources[id]
             token == tokenCount + 1
             granted == \E i \in 1..Len(listeners[endpoint.source]) :
                            /\ listeners[endpoint.source][i].client = sender
                            /\ listeners[endpoint.source][i].id = id
             auth == IF granted THEN "allow"
                     ELSE Authenticate(endpoint.authenticator, message.token, "read")
         IN /\ tokenCount < MaxTokens
            /\ tokenCount' = token
            /\ subscriptions' = [subscriptions EXCEPT ![sender][id] = token]
            /\ CASE auth = "allow" ->
                      /\ sent' = <<ScalarCallback(Listener(sender, id, token),
                                                  value[endpoint.source])>>
                      /\ listeners' = [listeners EXCEPT ![endpoint.source] =
                                          Append(@, Listener(sender, id, token))]
                 [] auth = "deny" ->
                      /\ sent' = <<Unauthorized(sender, "LISTEN_DATASOURCE_ERR", id)>>
                      /\ UNCHANGED listeners
                 [] OTHER ->
                      /\ sent' = <<>>
                      /\ UNCHANGED listeners
    ELSE /\ sent' = <<NotFound(sender, "LISTEN_DATASOURCE_ERR", id, "No such datasource")>>
         /\ UNCHANGED <<tokenCount, subscriptions, listeners>>

\* Variant: the listener is attached before the authorizer is asked.
listenDataSourceListenBeforeAuth(message, sender) ==
    LET id == message.id IN
    IF exposedDataSources[id] # NoEndpoint
    THEN LET endpoint == exposedDataSources[id]
             token == tokenCount + 1
             auth == Authenticate(endpoint.authenticator, message.token, "read")
             first == ScalarCallback(Listener(sender, id, token), value[endpoint.source])
         IN /\ tokenCount < MaxTokens
            /\ tokenCount' = token
            /\ subscriptions' = [subscriptions EXCEPT ![sender][id] = token]
            /\ listeners' = [listeners EXCEPT ![endpoint.source] =
                                Append(@, Listener(sender, id, token))]
            /\ CASE auth = "allow" -> sent' = <<first>>
                 [] auth = "deny" ->
                      sent' = <<first, Unauthorized(sender, "LISTEN_DATASOURCE_ERR", id)>>
                 [] OTHER -> sent' = <<first>>
    ELSE /\ sent' = <<NotFound(sender, "LISTEN_DATASOURCE_ERR", id, "No such datasource")>>
         /\ UNCHANGED <<tokenCount, subscriptions, listeners>>

listenDataSource(message, sender) ==
    LET id == message.id IN
    IF exposedDataSources[id] # NoEndpoint
    THEN LET endpoint == exposedDataSources[id]
             token == tokenCount + 1
             auth == Authenticate(endpoint.authenticator, message.token, "read")
         IN /\ tokenCount < MaxTokens
            /\ tokenCount' = token
            /\ subscriptions' = [subscriptions EXCEPT ![sender][id] = token]
            /\ CASE auth = "allow" ->
                      /\ sent' = <<ScalarCallback(Listener(sender, id, token),
                                                  value[endpoint.source])>>
                      /\ listeners' = [listeners EXCEPT ![endpoint.source] =
                                          Append(@, Listener(sender, id, token))]
                 [] auth = "deny" ->
                      /\ sent' = <<Unauthorized(sender, "LISTEN_DATASOURCE_ERR", id)>>
                      /\ UNCHANGED listeners
                 [] OTHER ->
                      /\ sent' = <<>>
                      /\ UNCHANGED listeners
    ELSE /\ sent' = <<NotFound(sender, "LISTEN_DATASOURCE_ERR", id, "No such datasource")>>
         /\ UNCHANGED <<tokenCount, subscriptions, listeners>>

listenArrayDataSource(message, sender) ==
    LET id == message.id IN
    IF exposedArrayDataSources[id] # NoEndpoint
    THEN LET endpoint == exposedArrayDataSources[id]
             token == tokenCount + 1
             auth == Authenticate(endpoint.authenticator, message.token, "read")
             data == value[endpoint.source]
         IN /\ tokenCount < MaxTokens
            /\ tokenCount' = token
            /\ subscriptions' = [subscriptions EXCEPT ![sender][id] = token]
            /\ CASE auth = "allow" ->
                      /\ sent' = IF data # <<>>
                                 THEN <<ArrayCallback(Listener(sender, id, token),
                                                      InitialChange(data))>>
                                 ELSE <<>>
                      /\ listeners' = [listeners EXCEPT ![endpoint.source] =
                                          Append(@, Listener(sender, id, token))]
                 [] auth = "deny" ->
                      /\ sent' = <<Unauthorized(sender, "LISTEN_ARRAY_DATASOURCE_ERR", id)>>
                      /\ UNCHANGED listeners
                 [] OTHER ->
                      /\ sent' = <<>>
                      /\ UNCHANGED listeners
    ELSE /\ sent' = <<NotFound(sender, "LISTEN_ARRAY_DATASOURCE_ERR", id,
                               "No such array datasource")>>
         /\ UNCHANGED <<tokenCount, subscriptions, listeners>>

listenDuplexDataSource(message, sender) ==
    LET id == message.id IN
    IF exposedDuplexDataSources[id] # NoEndpoint
    THEN LET endpoint == exposedDuplexDataSources[id]
             token == tokenCount + 1
             auth == Authenticate(endpoint.authenticator, message.token, "read")
         IN /\ tokenCount < MaxTokens
            /\ tokenCount' = token
            /\ subscriptions' = [subscriptions EXCEPT ![sender][id] = token]
            /\ CASE auth = "allow" ->
                      /\ sent' = <<DuplexCallback(Listener(sender, id, token),
                                                  value[endpoint.source])>>
                      /\ listeners' = [listeners EXCEPT ![endpoint.source] =
                                          Append(@, Listener(sender, id, token))]
                 [] auth = "deny" ->
                      /\ sent' = <<Unauthorized(sender, "LISTEN_DUPLEX_DATASOURCE_ERR", id)>>
                      /\ UNCHANGED listeners
                 [] OTHER ->
                      /\ sent' = <<>>
                      /\ UNCHANGED listeners
    ELSE /\ sent' = <<NotFound(sender, "LISTEN_DUPLEX_DATASOURCE_ERR", id,
                               "No such duplex datasource")>>
         /\ UNCHANGED <<tokenCount, subscriptions, listeners>>

-----------------------------------------------------------------------------
(* The write handler.  DuplexDataSource.updateUpstream(v) stores v and    *)
(* fires the upstream event; callbacks registered with listen() hear both *)
(* directions.                                                            *)

\* Variant: the write is authorized as a "read".
updateDuplexDataSourceAsRead(message, sender) ==
    LET id == message.id IN
    IF exposedDuplexDataSources[id] # NoEndpoint
    THEN LET endpoint == exposedDuplexDataSources[id]
             auth == Authenticate(endpoint.authenticator, message.token, "read")
         IN CASE auth = "allow" ->
                   /\ pushed' = <<[source |-> endpoint.source, value |-> message.value]>>
                   /\ value' = [value EXCEPT ![endpoint.source] = message.value]
                   /\ sent' = FireDuplex(endpoint.source, message.value)
              [] auth = "deny" ->
                   /\ sent' = <<Unauthorized(sender, "UPDATE_DUPLEX_DATASOURCE_ERR", id)>>
                   /\ pushed' = <<>>
                   /\ UNCHANGED value
              [] OTHER ->
                   /\ sent' = <<>>
                   /\ pushed' = <<>>
                   /\ UNCHANGED value
    ELSE /\ sent' = <<NotFound(sender, "UPDATE_DUPLEX_DATASOURCE_ERR", id,
                               "No such duplex datasource")>>
         /\ pushed' = <<>>
         /\ UNCHANGED value

updateDuplexDataSource(message, sender) ==
    LET id == message.id IN
    IF exposedDuplexDataSources[id] # NoEndpoint
    THEN LET endpoint == exposedDuplexDataSources[id]
             auth == Authenticate(endpoint.authenticator, message.token, "write")
         IN CASE auth = "allow" ->
                   /\ pushed' = <<[source |-> endpoint.source, value |-> message.value]>>
                   /\ value' = [value EXCEPT ![endpoint.source] = message.value]
                   /\ sent' = FireDuplex(endpoint.source, message.value)
              [] auth = "deny" ->
                   /\ sent' = <<Unauthorized(sender, "UPDATE_DUPLEX_DATASOURCE_ERR", id)>>
                   /\ pushed' = <<>>
                   /\ UNCHANGED value
              [] OTHER ->
                   /\ sent' = <<>>
                   /\ pushed' = <<>>
                   /\ UNCHANGED value
    ELSE /\ sent' = <<NotFound(sender, "UPDATE_DUPLEX_DATASOURCE_ERR", id,
                               "No such duplex datasource")>>
         /\ pushed' = <<>>
         /\ UNCHANGED value

-----------------------------------------------------------------------------
(* Inbound frames.  A frame is binary or a string; a string has a length  *)
(* and either parses to a message or makes JSON.parse throw.              *)

ListenTypes == {"LISTEN_DATASOURCE", "LISTEN_DUPLEX_DATASOURCE", "LISTEN_ARRAY_DATASOURCE"}

Heartbeat == [type |-> "HEARTBEAT"]

Messages ==
    {Heartbeat, [type |-> "CANCEL_DATASOURCE"]}
    \cup [type : ListenTypes, id : Ids, token : AuthTokens]
    \cup [type : {"UPDATE_DUPLEX_DATASOURCE"}, id : Ids, token : AuthTokens, value : Values]

StringFrame(length, parses, message) ==
    [isString |-> TRUE, length |-> length, parses |-> parses, message |-> message]

Frames ==
    {[isString |-> FALSE, length |-> 2, parses |-> FALSE, message |-> Heartbeat]}
    \cup {StringFrame(2, FALSE, Heartbeat)}
    \cup {StringFrame(2, TRUE, m) : m \in Messages}
    \cup {StringFrame(n, TRUE, Heartbeat) :
            n \in {maxMessageSize - 1, maxMessageSize, maxMessageSize + 1}}

\* The frame passes "typeof data === string" and the size check.
Accepted(data) == data.isString /\ ~(data.length >= maxMessageSize)

\* The frame reaches the switch on message.type.
Dispatched(data) == Accepted(data) /\ data.parses

\* The switch of processMessage; an exception raised by a handler is caught
\* by the enclosing try and leaves what the handler did before it.
Dispatch(message, sender) ==
    CASE message.type = "LISTEN_DATASOURCE" ->
            /\ listenDataSource(message, sender)
            /\ pushed' = <<>>
            /\ UNCHANGED value
      [] message.type = "LISTEN_DUPLEX_DATASOURCE" ->
            /\ listenDuplexDataSource(message, sender)
            /\ pushed' = <<>>
            /\ UNCHANGED value
      [] message.type = "LISTEN_ARRAY_DATASOURCE" ->
            /\ listenArrayDataSource(message, sender)
            /\ pushed' = <<>>
            /\ UNCHANGED value
      [] message.type = "UPDATE_DUPLEX_DATASOURCE" ->
            /\ updateDuplexDataSource(message, sender)
            /\ UNCHANGED <<tokenCount, subscriptions, listeners>>
      [] OTHER ->
            /\ sent' = <<>>
            /\ pushed' = <<>>
            /\ UNCHANGED <<value, tokenCount, subscriptions, listeners>>

\* this.config.onError?.(sender, ...): this.config is the object create() built.
ReportError(sender) ==
    IF "onError" \in ServerConfigFields
    THEN InvokeHook("onError", sender)
    ELSE hooks

\* The handler of the message raises an exception.
Throws(message) ==
    /\ message.type \in ListenTypes \cup {"UPDATE_DUPLEX_DATASOURCE"}
    /\ LET e == CASE message.type = "LISTEN_DATASOURCE" -> exposedDataSources[message.id]
                  [] message.type = "LISTEN_ARRAY_DATASOURCE" ->
                         exposedArrayDataSources[message.id]
                  [] OTHER -> exposedDuplexDataSources[message.id]
           operation == IF message.type = "UPDATE_DUPLEX_DATASOURCE"
                        THEN "write" ELSE "read"
       IN /\ e # NoEndpoint
          /\ Authenticate(e.authenticator, message.token, operation) = "throw"

\* Variant: no try block around the dispatch; the exception of a handler
\* leaves the message listener and the connection is terminated.
processMessageHandlerEscapes(sender, data, now) ==
    /\ status[sender] = "open"
    /\ IF Dispatched(data)
       THEN /\ timeSinceLastMessage' = [timeSinceLastMessage EXCEPT ![sender] = now]
            /\ Dispatch(data.message, sender)
            /\ UNCHANGED hooks
       ELSE /\ hooks' = IF data.isString /\ data.length >= maxMessageSize
                        THEN ReportError(sender)
                        ELSE hooks
            /\ sent' = <<>>
            /\ pushed' = <<>>
            /\ UNCHANGED <<timeSinceLastMessage, value, tokenCount, subscriptions,
                           listeners>>
    /\ last' = [op |-> "message", client |-> sender, data |-> data,
                now |-> IF Dispatched(data) THEN now ELSE 0]
    /\ status' = IF Dispatched(data) /\ Throws(data.message)
                 THEN [status EXCEPT ![sender] = "closed"]
                 ELSE status
    /\ UNCHANGED <<wsServerClients, registry, cancelled>>

\* Variant: JSON.parse is outside the try block; a frame that does not
\* parse terminates the connection.
processMessageParseEscapes(sender, data, now) ==
    /\ status[sender] = "open"
    /\ IF Dispatched(data)
       THEN /\ timeSinceLastMessage' = [timeSinceLastMessage EXCEPT ![sender] = now]
            /\ Dispatch(data.message, sender)
            /\ UNCHANGED hooks
       ELSE /\ hooks' = IF data.isString /\ data.length >= maxMessageSize
                        THEN ReportError(sender)
                        ELSE hooks
            /\ sent' = <<>>
            /\ pushed' = <<>>
            /\ UNCHANGED <<timeSinceLastMessage, value, tokenCount, subscriptions,
                           listeners>>
    /\ last' = [op |-> "message", client |-> sender, data |-> data,
                now |-> IF Dispatched(data) THEN now ELSE 0]
    /\ status' = IF Accepted(data) /\ ~data.parses
                 THEN [status EXCEPT ![sender] = "closed"]
                 ELSE status
    /\ UNCHANGED <<wsServerClients, registry, cancelled>>

\* Variant: the timestamp is not taken.
processMessageNoTimestamp(sender, data, now) ==
    /\ status[sender] = "open"
    /\ IF Dispatched(data)
       THEN /\ Dispatch(data.message, sender)
            /\ UNCHANGED <<hooks, timeSinceLastMessage>>
       ELSE /\ hooks' = IF data.isString /\ data.length >= maxMessageSize
                        THEN ReportError(sender)
                        ELSE hooks
            /\ sent' = <<>>
            /\ pushed' = <<>>
            /\ UNCHANGED <<timeSinceLastMessage, value, tokenCount, subscriptions,
                           listeners>>
    /\ last' = [op |-> "message", client |-> sender, data |-> data,
                now |-> IF Dispatched(data) THEN now ELSE 0]
    /\ UNCHANGED <<status, wsServerClients, registry, cancelled>>

processMessage(sender, data, now) ==
    /\ status[sender] = "open"
    /\ IF Dispatched(data)
       THEN /\ timeSinceLastMessage' = [timeSinceLastMessage EXCEPT ![sender] = now]
            /\ Dispatch(data.message, sender)
            /\ UNCHANGED hooks
       ELSE /\ hooks' = IF data.isString /\ data.length >= maxMessageSize
                        THEN ReportError(sender)
                        ELSE hooks
            /\ sent' = <<>>
            /\ pushed' = <<>>
            /\ UNCHANGED <<timeSinceLastMessage, value, tokenCount, subscriptions,
                           listeners>>
    /\ last' = [op |-> "message", client |-> sender, data |-> data,
                now |-> IF Dispatched(data) THEN now ELSE 0]
    /\ UNCHANGED <<status, wsServerClients, registry, cancelled>>

-----------------------------------------------------------------------------
(* Explicit unsubscribe.                                                  *)

\* Variant: the unsubscribe drops every subscription of the session.
cancelSubscriptionClearsSession(sender, message) ==
    LET sub == subscriptions[sender][message.url] IN
    /\ status[sender] = "open"
    /\ IF sub # NoToken
       THEN /\ CancelAll(HeldTokens(sender))
            /\ subscriptions' = [subscriptions EXCEPT ![sender] = [id \in Ids |-> NoToken]]
       ELSE UNCHANGED <<cancelled, listeners, subscriptions>>
    /\ sent' = <<>>
    /\ pushed' = <<>>
    /\ last' = [op |-> "cancel", client |-> sender, url |-> message.url]
    /\ UNCHANGED <<status, wsServerClients, timeSinceLastMessage, registry, value,
                   tokenCount, hooks>>

cancelSubscriptionToExposedSource(sender, message) ==
    LET sub == subscriptions[sender][message.url] IN
    /\ status[sender] = "open"
    /\ IF sub # NoToken
       THEN /\ CancelAll({sub})
            /\ subscriptions' = [subscriptions EXCEPT ![sender][message.url] = NoToken]
       ELSE UNCHANGED <<cancelled, listeners, subscriptions>>
    /\ sent' = <<>>
    /\ pushed' = <<>>
    /\ last' = [op |-> "cancel", client |-> sender, url |-> message.url]
    /\ UNCHANGED <<status, wsServerClients, timeSinceLastMessage, registry, value,
                   tokenCount, hooks>>

-----------------------------------------------------------------------------
(* The embedding application exposes sources.                             *)

\* The source is held by the registry or still has a listener.
InUse(source) ==
    \/ listeners[source] # <<>>
    \/ \E id \in Ids : source \in {exposedDataSources[id].source,
                                   exposedDuplexDataSources[id].source,
                                   exposedArrayDataSources[id].source}

\* Source objects are interchangeable: the application hands out the
\* second object of a kind only after the first.
Fresh(source) ==
    \/ source \in {"s1", "d1", "a1"}
    \/ source = "s2" /\ InUse("s1")
    \/ source = "d2" /\ InUse("d1")
    \/ source = "a2" /\ InUse("a1")

ExposeFrame(kind, id, source, authenticate) ==
    /\ exposeCount < MaxExposes
    /\ Fresh(source)
    /\ exposeCount' = exposeCount + 1
    /\ sent' = <<>>
    /\ pushed' = <<>>
    /\ last' = [op |-> "expose", kind |-> kind, id |-> id, source |-> source,
                authenticator |-> authenticate]
    /\ UNCHANGED <<status, wsServerClients, subscriptions, timeSinceLastMessage,
                   value, listeners, tokenCount, cancelled, hooks>>

\* Variant: an id that is already registered keeps its first entry.
exposeDataSourceFirstWins(id, source, authenticate) ==
    /\ exposedDataSources' =
           IF exposedDataSources[id] = NoEndpoint
           THEN [exposedDataSources EXCEPT ![id] =
                     Endpoint(source, DefaultAuthenticate(authenticate))]
           ELSE exposedDataSources
    /\ ExposeFrame("scalar", id, source, authenticate)
    /\ UNCHANGED <<exposedDuplexDataSources, exposedArrayDataSources>>

exposeDataSource(id, source, authenticate) ==
    /\ exposedDataSources' =
           [exposedDataSources EXCEPT ![id] =
                Endpoint(source, DefaultAuthenticate(authenticate))]
    /\ ExposeFrame("scalar", id, source, authenticate)
    /\ UNCHANGED <<exposedDuplexDataSources, exposedArrayDataSources>>

exposeArrayDataSource(id, source, authenticate) ==
    /\ exposedArrayDataSources' =
           [exposedArrayDataSources EXCEPT ![id] =
                Endpoint(source, DefaultAuthenticate(authenticate))]
    /\ ExposeFrame("array", id, source, authenticate)
    /\ UNCHANGED <<exposedDataSources, exposedDuplexDataSources>>

exposeDuplexDataSource(id, source, authenticate) ==
    /\ exposedDuplexDataSources' =
           [exposedDuplexDataSources EXCEPT ![id] =
                Endpoint(source, DefaultAuthenticate(authenticate))]
    /\ ExposeFrame("duplex", id, source, authenticate)
    /\ UNCHANGED <<exposedDataSources, exposedArrayDataSources>>

-----------------------------------------------------------------------------
(* The registry class of router.ts: the same three maps, filled by its    *)
(* own expose methods and read by the handlers through Map.get.           *)

Router_exposeDataSource(id, source, authenticate) ==
    /\ exposedDataSources' =
           [exposedDataSources EXCEPT ![id] =
                Endpoint(source, DefaultAuthenticate(authenticate))]
    /\ ExposeFrame("scalar", id, source, authenticate)
    /\ UNCHANGED <<exposedDuplexDataSources, exposedArrayDataSources>>

\* authenticate? has no default value here: the argument is stored as given.
Router_exposeArrayDataSource(id, source, authenticate) ==
    /\ exposedArrayDataSources' =
           [exposedArrayDataSources EXCEPT ![id] = Endpoint(source, authenticate)]
    /\ ExposeFrame("array", id, source, authenticate)
    /\ UNCHANGED <<exposedDataSources, exposedDuplexDataSources>>

Router_exposeDuplexDataSource(id, source, authenticate) ==
    /\ exposedDuplexDataSources' =
           [exposedDuplexDataSources EXCEPT ![id] = Endpoint(source, authenticate)]
    /\ ExposeFrame("duplex", id, source, authenticate)
    /\ UNCHANGED <<exposedDataSources, exposedArrayDataSources>>

-----------------------------------------------------------------------------
(* The embedding application mutates an exposed source; the source fires  *)
(* its listeners synchronously.                                           *)

Emission(source, newValue, frames, op) ==
    /\ InUse(source)
    /\ value' = [value EXCEPT ![source] = newValue]
    /\ sent' = frames
    /\ pushed' = <<>>
    /\ last' = op
    /\ UNCHANGED <<status, wsServerClients, subscriptions, timeSinceLastMessage,
                   registry, listeners, tokenCount, cancelled, hooks>>

\* DataSource.update(v)
Update(source, v) ==
    Emission(source, v, FireScalar(source, v),
             [op |-> "update", source |-> source, value |-> v])

\* DuplexDataSource.updateDownstream(v)
UpdateDownstream(source, v) ==
    Emission(source, v, FireDuplex(source, v),
             [op |-> "updateDownstream", source |-> source, value |-> v])

\* The change events of an ArrayDataSource holding data.
ArrayChanges(data) ==
    {[operation |-> "merge", operationDetailed |-> "merge", index |-> 0,
      count |-> Len(n), items |-> n, previousState |-> data, newState |-> n]
        : n \in ArrayStates \ {data}}
    \cup (IF Append(data, Len(data)) \in ArrayStates
          THEN {[operation |-> "add", operationDetailed |-> "append",
                 index |-> Len(data), count |-> 1, items |-> <<Len(data)>>,
                 newState |-> Append(data, Len(data))]}
          ELSE {})
    \cup (IF data # <<>>
          THEN {[operation |-> "remove", operationDetailed |-> "removeRight",
                 index |-> Len(data) - 1, count |-> 1, items |-> <<data[Len(data)]>>,
                 newState |-> SubSeq(data, 1, Len(data) - 1)],
                [operation |-> "remove", operationDetailed |-> "clear", index |-> 0,
                 count |-> Len(data), items |-> data, previousState |-> data,
                 newState |-> <<>>]}
          ELSE {})

\* ArrayDataSource.push / pop / clear / merge
Mutate(source, change) ==
    Emission(source, change.newState, FireArray(source, change),
             [op |-> "mutate", source |-> source, change |-> change])

-----------------------------------------------------------------------------

\* Frames of the session scenario: heartbeats and scalar subscribes.
SessionFrames ==
    {StringFrame(2, TRUE, m) :
        m \in {Heartbeat} \cup [type : {"LISTEN_DATASOURCE"}, id : Ids,
                                token : {"good", "bad"}]
              \cup {[type |-> "LISTEN_DATASOURCE", id |-> "x", token |-> "malformed"],
                    [type |-> "LISTEN_ARRAY_DATASOURCE", id |-> "y", token |-> "good"]}}
    \cup {StringFrame(2, FALSE, Heartbeat)}

(* Two sessions, scalar subscriptions: connect, subscribe, unsubscribe,   *)
(* heartbeat, close, while the application updates the scalar source.     *)
Next ==
    \/ \E c \in Clients : Connection(c)
    \/ \E c \in Clients : Close(c)
    \/ \E c \in Clients, d \in SessionFrames, t \in Times : processMessage(c, d, t)
    \/ \E c \in Clients, id \in Ids : cancelSubscriptionToExposedSource(c, [url |-> id])
    \/ \E v \in Values : Update("s1", v)

Spec == Init /\ [][Next]_vars

(* One session, every kind of frame and of source.                        *)
NextKinds ==
    \/ Connection("c1")
    \/ Close("c1")
    \/ \E d \in Frames : processMessage("c1", d, 1)
    \/ \E id \in Ids : cancelSubscriptionToExposedSource("c1", [url |-> id])
    \/ \E s \in ScalarSources, v \in Values : Update(s, v)
    \/ \E s \in DuplexSources, v \in Values : UpdateDownstream(s, v)
    \/ \E s \in ArraySources : \E ch \in ArrayChanges(value[s]) : Mutate(s, ch)

SpecKinds == Init /\ [][NextKinds]_vars

\* Frames of the expose scenario: subscribes and writes for the id "x".
ExposeFrames ==
    {StringFrame(2, TRUE, m) :
        m \in [type : ListenTypes, id : {"x"}, token : {"good", "bad", "malformed"}]
              \cup [type : {"UPDATE_DUPLEX_DATASOURCE"}, id : {"x"},
                    token : {"good", "bad", "malformed"}, value : {1}]}

(* The application exposes sources while one session subscribes.          *)
NextExpose ==
    \/ Connection("c1")
    \/ \E d \in ExposeFrames : processMessage("c1", d, 1)
    \/ \E id \in Ids, s \in ScalarSources, a \in Authenticators : exposeDataSource(id, s, a)
    \/ \E id \in Ids, s \in ArraySources, a \in Authenticators : exposeArrayDataSource(id, s, a)
    \/ \E id \in Ids, s \in DuplexSources, a \in Authenticators : exposeDuplexDataSource(id, s, a)

SpecExpose == InitEmpty /\ [][NextExpose]_vars

(* The application exposes sources through the Router while one session   *)
(* subscribes.                                                            *)
NextRouter ==
    \/ Connection("c1")
    \/ \E d \in ExposeFrames : processMessage("c1", d, 1)
    \/ \E id \in Ids, s \in ScalarSources, a \in Authenticators :
           Router_exposeDataSource(id, s, a)
    \/ \E id \in Ids, s \in ArraySources, a \in Authenticators :
           Router_exposeArrayDataSource(id, s, a)
    \/ \E id \in Ids, s \in DuplexSources, a \in Authenticators :
           Router_exposeDuplexDataSource(id, s, a)

SpecRouter == InitEmpty /\ [][NextRouter]_vars

-----------------------------------------------------------------------------
(* Observations used by the properties below.                             *)

Range(seq) == {seq[i] : i \in 1..Len(seq)}

\* The frames the last step sent to a session, in sending order.
FramesTo(client) == SelectSeq(sent, LAMBDA f : f.to = client)

\* The listeners that deliver to a session, per source, in registration order.
ListenersOf(client) ==
    [s \in Sources |-> SelectSeq(listeners[s], LAMBDA l : l.client = client)]

\* The last step dispatched a parsed message of one of the given types.
DispatchedMessage(types) ==
    /\ last.op = "message"
    /\ Dispatched(last.data)
    /\ last.data.message.type \in types

\* The registry entry a subscribe or write message of that type looks up.
Lookup(type, id) ==
    CASE type = "LISTEN_DATASOURCE"       -> exposedDataSources[id]
      [] type = "LISTEN_ARRAY_DATASOURCE" -> exposedArrayDataSources[id]
      [] OTHER                            -> exposedDuplexDataSources[id]

ErrTypeOf(type) ==
    CASE type = "LISTEN_DATASOURCE"        -> "LISTEN_DATASOURCE_ERR"
      [] type = "LISTEN_ARRAY_DATASOURCE"  -> "LISTEN_ARRAY_DATASOURCE_ERR"
      [] type = "LISTEN_DUPLEX_DATASOURCE" -> "LISTEN_DUPLEX_DATASOURCE_ERR"
      [] OTHER                             -> "UPDATE_DUPLEX_DATASOURCE_ERR"

\* What the request of the last step met: "absent", "allow", "deny" or "throw".
Outcome(operation) ==
    LET m == last.data.message
        e == Lookup(m.type, m.id)
    IN IF e = NoEndpoint THEN "absent"
       ELSE Authenticate(e.authenticator, m.token, operation)

\* The last step was a subscribe request with the given outcome.
Subscribe(outcome) ==
    DispatchedMessage(ListenTypes) /\ Outcome("read") = outcome

\* The last step was a write request with the given outcome.
Write(outcome) ==
    DispatchedMessage({"UPDATE_DUPLEX_DATASOURCE"}) /\ Outcome("write") = outcome

\* The last step sent exactly one error frame, to the requester, with that code.
SentError(errorCode) ==
    /\ Len(sent) = 1
    /\ sent[1].to = last.client
    /\ sent[1].type = ErrTypeOf(last.data.message.type)
    /\ sent[1].id = last.data.message.id
    /\ sent[1].errorCode = errorCode

\* The session's map holds a handle under id whose listener is attached to source.
Active(client, source, id) ==
    \E i \in 1..Len(listeners[source]) :
        /\ listeners[source][i].client = client
        /\ listeners[source][i].id = id
        /\ listeners[source][i].token = subscriptions[client][id]

-----------------------------------------------------------------------------
(* C1: after a session's close was handled, no update frame is delivered  *)
(* to it again, whatever it had subscribed to and whenever the source     *)
(* changes.  Stated as: no step sends a frame to a closed session.        *)
C1_NoDeliveryAfterClose ==
    \A i \in 1..Len(sent) : status[sent[i].to] # "closed"

(* C2: a subscribe whose id is exposed but whose authorizer returns false *)
(* sends a subscribe-error 401 and registers nothing: the session's map   *)
(* and the sources' listeners are as before the request.                  *)
C2_DeniedSubscribeRegistersNothing ==
    [][Subscribe("deny")' =>
          /\ SentError(401)'
          /\ subscriptions' = subscriptions
          /\ listeners' = listeners]_vars

C4_ExactlyOneUpdatePerMutation ==
    /\ DispatchedMessage({"LISTEN_DATASOURCE"}) /\ Outcome("read") = "allow" =>
          /\ Len(sent) >= 1
          /\ sent[1].to = last.client
          /\ sent[1].value = value[exposedDataSources[last.data.message.id].source]
    /\ last.op = "update" =>
          \A c \in Clients, id \in Ids :
              Active(c, last.source, id) =>
                  /\ Len(FramesTo(c)) = 1
                  /\ FramesTo(c)[1].value = last.value


C6_WritePushesOnceWhenAuthorized ==
    /\ Write("allow") =>
          pushed = <<[source |-> exposedDuplexDataSources[last.data.message.id].source,
                      value |-> last.data.message.value]>>
    /\ Write("deny") => pushed = <<>> /\ SentError(401)
    /\ Write("absent") => pushed = <<>> /\ SentError(404)
    /\ pushed # <<>> => Write("allow")

C6_Witness ==
    /\ Write("allow")
    /\ Len(pushed) = 1
    /\ pushed[1].value # 0

AckTypes == {"LISTEN_DATASOURCE_OK"}

C9_HeartbeatOnlyTouchesActivity ==
    [][DispatchedMessage({"HEARTBEAT"})' =>
          /\ last'.now \in Times
          /\ timeSinceLastMessage' =
                 [timeSinceLastMessage EXCEPT ![last'.client] = last'.now]
          /\ sent' = <<>>
          /\ pushed' = <<>>
          /\ UNCHANGED <<status, wsServerClients, subscriptions, registry, value,
                         listeners, tokenCount, cancelled, hooks>>]_vars

C9_Witness ==
    /\ DispatchedMessage({"HEARTBEAT"})
    /\ timeSinceLastMessage[last.client] = 2
    /\ \E id \in Ids : subscriptions[last.client][id] # NoToken
    /\ \E b \in Clients \ {last.client} :
           status[b] = "open" /\ timeSinceLastMessage[b] = 1

(* C10: the connect hook runs exactly once per accepted connection, with  *)
(* the session already in the live list, and the disconnect hook runs     *)
(* exactly once per closed connection, in the close handler itself.       *)
C10_HooksOncePerSession ==
    /\ \A c \in Clients :
          /\ hooks["onClientConnected"][c] = IF status[c] = "new" THEN 0 ELSE 1
          /\ hooks["onClientDisconnected"][c] = IF status[c] = "closed" THEN 1 ELSE 0
          /\ status[c] = "open" <=> c \in Range(wsServerClients)
    /\ last.op = "connection" =>
          /\ last.client \in Range(wsServerClients)
          /\ hooks["onClientConnected"][last.client] = 1
    /\ last.op = "close" =>
          /\ last.client \notin Range(wsServerClients)
          /\ hooks["onClientDisconnected"][last.client] = 1

C10_Witness ==
    /\ last.op = "close"
    /\ hooks["onClientDisconnected"][last.client] = 1
    /\ cancelled # {}
    /\ \E b \in Clients \ {last.client} : status[b] = "open"

(* C11: an explicit unsubscribe of an id cancels the handle the session's *)
(* map holds under that id and deletes that entry only: every other entry *)
(* of the session, every other session's map and every listener of       *)
(* another handle stay as they were.  When the map holds nothing under    *)
(* the id the call changes nothing, so a second unsubscribe is a no-op.   *)
C11_UnsubscribeExactlyOne ==
    [][last'.op = "cancel" =>
          LET c == last'.client
              sub == subscriptions[c][last'.url]
          IN /\ subscriptions'[c][last'.url] = NoToken
             /\ \A b \in Clients, id \in Ids :
                    <<b, id>> # <<c, last'.url>> =>
                        subscriptions'[b][id] = subscriptions[b][id]
             /\ cancelled' = cancelled \cup ({sub} \ {NoToken})
             /\ \A s \in Sources :
                    listeners'[s] = SelectSeq(listeners[s], LAMBDA l : l.token # sub)
             /\ sub = NoToken => UNCHANGED <<subscriptions, listeners, cancelled>>
             /\ sent' = <<>>
             /\ UNCHANGED <<status, wsServerClients, registry, value, hooks>>]_vars

\* An unsubscribe took one of two entries of a session.
C11_Witness ==
    /\ last.op = "cancel"
    /\ subscriptions[last.client][last.url] = NoToken
    /\ cancelled # {}
    /\ \E id \in Ids \ {last.url} :
           /\ subscriptions[last.client][id] # NoToken
           /\ subscriptions[last.client][id] \notin cancelled
           /\ \E s \in Sources : Active(last.client, s, id)

\* The entry was registered by an expose call that passed no authorizer.
ExposedWithoutAuthorizer(e) == e.authenticator \in {"allowAll", "undefined"}

\* The subscribe of the last step attached a listener and sent no error frame.
SubscribeSucceeded ==
    LET m == last.data.message
        e == Lookup(m.type, m.id)
    IN /\ Listener(last.client, m.id, tokenCount) \in Range(listeners[e.source])
       /\ subscriptions[last.client][m.id] = tokenCount
       /\ \A i \in 1..Len(sent) : "errorCode" \notin DOMAIN sent[i]

\* The write of the last step reached the source and sent no error frame.
WriteSucceeded ==
    LET m == last.data.message
        e == Lookup(m.type, m.id)
    IN /\ pushed = <<[source |-> e.source, value |-> m.value]>>
       /\ \A i \in 1..Len(sent) : "errorCode" \notin DOMAIN sent[i]

(* C12: whatever the kind, a source exposed without an authorizer admits  *)
(* every request: each subscribe, and for a duplex source each write,     *)
(* succeeds under any token; none is answered with 401 and none ends in   *)
(* an exception of the handler.                                           *)
C12_DefaultAllowsAll ==
    /\ (DispatchedMessage(ListenTypes)
           /\ ExposedWithoutAuthorizer(Lookup(last.data.message.type,
                                              last.data.message.id)))
          => SubscribeSucceeded
    /\ (DispatchedMessage({"UPDATE_DUPLEX_DATASOURCE"})
           /\ ExposedWithoutAuthorizer(Lookup(last.data.message.type,
                                              last.data.message.id)))
          => WriteSucceeded

\* The registry map of a kind.
RegistryOf(kind) ==
    CASE kind = "scalar" -> exposedDataSources
      [] kind = "array"  -> exposedArrayDataSources
      [] OTHER           -> exposedDuplexDataSources

(* C13: exposing an id again within a kind replaces the entry of that id  *)
(* in that kind's map and nothing else: the other ids of the kind and the *)
(* maps of the other kinds, the same id included, stay as they were.      *)
(* Every subscribe and write handled afterwards is looked up in the       *)
(* current map: it is authorized by the current entry's authorizer and a  *)
(* granted subscribe attaches to the current entry's source, a granted    *)
(* write is pushed into it.                                               *)
C13_ReexposeReplaces ==
    /\ [][last'.op = "expose" =>
             /\ \A k \in {"scalar", "array", "duplex"} :
                    RegistryOf(k)' =
                        IF k = last'.kind
                        THEN [RegistryOf(k) EXCEPT ![last'.id] =
                                  Endpoint(last'.source,
                                           DefaultAuthenticate(last'.authenticator))]
                        ELSE RegistryOf(k)
             /\ UNCHANGED <<listeners, subscriptions, cancelled>>]_vars
    /\ [](/\ Subscribe("allow") => SubscribeSucceeded
          /\ Subscribe("deny") => SentError(401)
          /\ Write("allow") => WriteSucceeded
          /\ Write("deny") => SentError(401) /\ pushed = <<>>)

\* The scalar id "x" was exposed twice; a subscription made in between is
\* still attached to the first source and a new one attached to the second.
C13_Witness ==
    /\ exposeCount = 2
    /\ exposedDataSources = [id \in Ids |-> IF id = "x" THEN Endpoint("s2", "verify")
                                           ELSE NoEndpoint]
    /\ \A id \in Ids : exposedDuplexDataSources[id] = NoEndpoint
    /\ \A id \in Ids : exposedArrayDataSources[id] = NoEndpoint
    /\ Listener("c1", "x", 1) \in Range(listeners["s1"])
    /\ Subscribe("allow")
    /\ last.data.message.type = "LISTEN_DATASOURCE"
    /\ Listener("c1", "x", 2) \in Range(listeners["s2"])

\* The last step handled a text frame longer than the configured maximum.
Oversized ==
    /\ last.op = "message"
    /\ last.data.isString
    /\ last.data.length > maxMessageSize

(* C14: when a frame is rejected for its size and the application has     *)
(* configured an error observer, that observer is invoked exactly once    *)
(* for the frame, with the sending session; the frame is not parsed or    *)
(* dispatched, nothing is sent and the subscription maps stay as they     *)
(* were.  (The application configures all three hooks in this model.)     *)
C14_ObserverOncePerOversizedFrame ==
    [][Oversized' =>
          /\ hooks' = [hooks EXCEPT !["onError"][last'.client] = @ + 1]
          /\ sent' = <<>>
          /\ pushed' = <<>>
          /\ UNCHANGED <<subscriptions, listeners, timeSinceLastMessage,
                         tokenCount>>]_vars

\* The listeners, on any source, that deliver to the session under the id.
ListenersFor(client, id) ==
    {<<s, i>> \in Sources \X (1..MaxTokens) :
        /\ i <= Len(listeners[s])
        /\ listeners[s][i].client = client
        /\ listeners[s][i].id = id}

\* The handles of the session for the id that carry a listener and that
\* nothing has cancelled.
LiveHandles(client, id) ==
    {listeners[p[1]][p[2]].token : p \in ListenersFor(client, id)} \ cancelled

(* C15: in every reachable state, for each session and id, there is       *)
(* exactly one handle that is not cancelled and exactly one listener      *)
(* that delivers to the session when the session has an active            *)
(* subscription to the id (its map holds a handle whose listener is       *)
(* attached), and none otherwise; this also after the session subscribed  *)
(* to the id more than once.                                              *)
C15_OneHandleOneListener ==
    \A c \in Clients, id \in Ids :
        LET n == IF \E s \in Sources : Active(c, s, id) THEN 1 ELSE 0
        IN /\ Cardinality(LiveHandles(c, id)) = n
           /\ Cardinality(ListenersFor(c, id)) = n

(* C16: in every reachable state a session that is not in the live list   *)
(* holds no subscription handle that is not cancelled: its map is empty   *)
(* and no listener of a live handle delivers to it, the close handler     *)
(* having cancelled all of them.                                          *)
C16_NoLiveHandleOutsideLiveList ==
    \A c \in Clients \ Range(wsServerClients) :
        \A id \in Ids :
            /\ subscriptions[c][id] = NoToken
            /\ LiveHandles(c, id) = {}

\* No listener carries the handle the last subscribe created.
NothingAttached ==
    \A s \in Sources : \A i \in 1..Len(listeners[s]) :
        listeners[s][i].token # tokenCount

(* C17: every subscribe and every write is authorized on its own: the     *)
(* authorizer is called with the token of that request and with "read"    *)
(* for a subscribe, "write" for a write, and its answer alone decides.  A *)
(* denied request is answered 401 and attaches or pushes nothing, a       *)
(* granted one succeeds, whatever the session was granted or denied       *)
(* before.                                                                *)
C17_AuthorizedPerRequest ==
    /\ Subscribe("deny") => SentError(401) /\ NothingAttached
    /\ Subscribe("allow") => SubscribeSucceeded
    /\ Write("deny") => SentError(401) /\ pushed = <<>>
    /\ Write("allow") => WriteSucceeded

\* A subscribe is denied although the session's earlier subscribe to the
\* same id was granted and its listener is still attached.
C17_Witness ==
    /\ Subscribe("deny")
    /\ SentError(401)
    /\ last.data.message.type = "LISTEN_DATASOURCE"
    /\ Listener(last.client, last.data.message.id, 1)
           \in Range(listeners[exposedDataSources[last.data.message.id].source])
    /\ tokenCount = 2

\* The last step handled a text frame that parses.
ParsableFrame ==
    /\ last.op = "message"
    /\ last.data.isString
    /\ last.data.parses

(* C18: a frame is rejected for its size exactly when its size is         *)
(* strictly greater than the configured maximum (1048576 by default): a   *)
(* frame whose size equals the maximum is parsed and dispatched, which    *)
(* records the time of the session's last message.                        *)
C18_RejectedIffLongerThanMax ==
    ParsableFrame =>
        IF last.data.length > maxMessageSize
        THEN sent = <<>> /\ last.now = 0
        ELSE /\ last.now \in Times
             /\ timeSinceLastMessage[last.client] = last.now

\* The handler of the last step's request raised an exception.
HandlerFault == Subscribe("throw") \/ Write("throw")

(* C19: an exception raised by a handler, for example by the authorizer,  *)
(* does not leave the dispatch: the sending session stays in the live     *)
(* list with its connection open, nothing is sent, no other session's map *)
(* or listeners change, and the connection's next frame is handled as     *)
(* usual.                                                                 *)
C19_HandlerFaultContained ==
    /\ [][HandlerFault' =>
             /\ status' = status
             /\ wsServerClients' = wsServerClients
             /\ sent' = <<>>
             /\ pushed' = <<>>
             /\ \A b \in Clients \ {last'.client} :
                    /\ subscriptions'[b] = subscriptions[b]
                    /\ ListenersOf(b)' = ListenersOf(b)
             /\ UNCHANGED <<registry, value, cancelled, hooks>>]_vars
    /\ [](HandlerFault =>
             /\ status[last.client] = "open"
             /\ last.client \in Range(wsServerClients)
             /\ ENABLED processMessage(last.client, StringFrame(2, TRUE, Heartbeat), 1))

\* The authorizer raised on a session's subscribe while another session is
\* connected and subscribed.
C19_Witness ==
    /\ Subscribe("throw")
    /\ subscriptions[last.client][last.data.message.id] = tokenCount
    /\ \E b \in Clients \ {last.client}, s \in Sources, id \in Ids :
           status[b] = "open" /\ Active(b, s, id)

\* The last step handled a text frame of accepted size that does not parse.
Unparsable ==
    /\ last.op = "message"
    /\ Accepted(last.data)
    /\ ~last.data.parses

(* C20: a frame that fails to parse is dropped without any effect a       *)
(* client could see: nothing is sent to any session, the connection stays *)
(* open and the session in the live list, the registry, every session's   *)
(* subscription map and every listener are as before, and a later         *)
(* well-formed frame of the connection is handled as usual.               *)
C20_UnparsableFrameDropped ==
    /\ [][Unparsable' =>
             /\ sent' = <<>>
             /\ pushed' = <<>>
             /\ UNCHANGED <<status, wsServerClients, registry, subscriptions,
                            listeners, cancelled, tokenCount, value, hooks>>]_vars
    /\ [](Unparsable =>
             /\ status[last.client] = "open"
             /\ last.client \in Range(wsServerClients)
             /\ ENABLED processMessage(last.client, StringFrame(2, TRUE, Heartbeat), 2))

\* A subscribed session sent a frame that does not parse while another
\* session is connected and subscribed.
C20_Witness ==
    /\ Unparsable
    /\ \E s \in Sources, id \in Ids : Active(last.client, s, id)
    /\ \E b \in Clients \ {last.client}, s \in Sources, id \in Ids :
           status[b] = "open" /\ Active(b, s, id)

\* The frame is the collection diff of the change, sent under the id: the
\* kind and the positional and value fields are those of the change.
CarriesChange(f, id, change) ==
    /\ f.type = "UPDATE_ARRAY_DATASOURCE"
    /\ f.id = id
    /\ f.change.operationDetailed = change.operationDetailed
    /\ f.change.index = change.index
    /\ f.change.count = change.count
    /\ f.change.items = change.items

(* C21: each mutation of a collection yields exactly one collection diff  *)
(* frame to every session with an active subscription to it, and the      *)
(* diff carries the kind of the mutation with the mutation's positional   *)
(* and value fields unchanged.                                            *)
C21_OneDiffPerMutation ==
    last.op = "mutate" =>
        \A c \in Clients, id \in Ids :
            Active(c, last.source, id) =>
                /\ Len(FramesTo(c)) = 1
                /\ CarriesChange(FramesTo(c)[1], id, last.change)

\* The sessions the last step sent frames to, in sending order.
Recipients == [i \in 1..Len(sent) |-> sent[i].to]

\* The sessions of the listeners of a source, in registration order.
Registered(source) ==
    [i \in 1..Len(listeners[source]) |-> listeners[source][i].client]

(* C22: one emission of a source is delivered to every session            *)
(* subscribed to the source, to each exactly once, in the order in which  *)
(* the subscriptions were registered, and as one step: the frames of the  *)
(* emission all carry its value and none of another emission lies         *)
(* between them.                                                          *)
C22_FanOutOnceInOrder ==
    last.op = "update" =>
        /\ \A c \in Clients :
               (\E id \in Ids : Active(c, last.source, id)) => Len(FramesTo(c)) = 1
        /\ Recipients = Registered(last.source)
        /\ \A i \in 1..Len(sent) :
               sent[i].type = "UPDATE_DATASOURCE" /\ sent[i].value = last.value

\* The sources whose values travel in frames of the given type.
SourcesOfFrame(type) ==
    CASE type = "UPDATE_DATASOURCE"        -> ScalarSources
      [] type = "UPDATE_DUPLEX_DATASOURCE" -> DuplexSources
      [] type = "UPDATE_ARRAY_DATASOURCE"  -> ArraySources
      [] OTHER                             -> {}

\* The frame carries a value of a source.
CarriesValue(f) == "value" \in DOMAIN f \/ "change" \in DOMAIN f

KindOf(source) ==
    CASE source \in ScalarSources -> "scalar"
      [] source \in DuplexSources -> "duplex"
      [] OTHER                    -> "array"

(* C24: when a session is subscribed under one id to sources of two       *)
(* kinds, each of the two subscriptions has its own handle in the         *)
(* session: the map holds the handle of either listener, so that an       *)
(* unsubscribe or the disconnect can cancel both, and no listener of the  *)
(* pair outlives the session.                                             *)
C24_OwnHandlePerKind ==
    \A c \in Clients, id \in Ids :
        \A p, q \in ListenersFor(c, id) :
            KindOf(p[1]) # KindOf(q[1]) =>
                /\ status[c] = "open"
                /\ listeners[p[1]][p[2]].token \in HeldTokens(c)
                /\ listeners[q[1]][q[2]].token \in HeldTokens(c)

=============================================================================
